---- MODULE Spec2Model ----
(***************************************************************************)
(* A model of app.py of testout-grader: the CSV gradebook summariser.      *)
(*                                                                         *)
(* Text is modelled as a sequence of one-character strings, so that the    *)
(* header regex, str.strip, str.replace, float() and the number regex are  *)
(* computed character by character as the code computes them.  A float is  *)
(* modelled as an exact decimal m * 10^(-e) in canonical form (or NaN);     *)
(* binary rounding error of IEEE doubles is not modelled, and the cell      *)
(* texts used are ones whose means are no rounding ties in binary.          *)
(***************************************************************************)
EXTENDS Integers, Sequences, FiniteSets, TLC

VARIABLES
    pc,             \* position of the request handler (or of the pure-function call)
    table,          \* the uploaded CSV as read: [cols: headers, rows: cells]
    df_columns,     \* df.columns after the strip of line 75
    student_col,    \* student_col (a column name)
    col_map,        \* parse_columns: per column [kind, typ, module]
    modules_order,  \* parse_columns: modules_set, in insertion order
    numeric_df,     \* numeric_df: rows of cells after pct_to_float
    module_cols,    \* module_cols: ordered entries [module, assessment, lab]
    output_rows,    \* output_rows: one dict (sequence of key/value pairs) per row
    table_columns,  \* table_columns
    out_df,         \* out_df: rows of values in table_columns order
    prev,           \* history: the table and result of the previous request
    runs,           \* history: number of requests started
    val,            \* argument of a pct_to_float call
    ret             \* result of a pct_to_float call

vars == <<pc, table, df_columns, student_col, col_map, modules_order, numeric_df,
          module_cols, output_rows, table_columns, out_df, prev, runs, val, ret>>

-----------------------------------------------------------------------------
(* Bounds *)

MaxCols == 3
MaxRuns == 2
MaxLen == 3

-----------------------------------------------------------------------------
(* Characters *)

Digits == {"0", "1", "2", "3", "4", "5", "6", "7", "8", "9"}
LowerLetters == {"a", "b", "c", "d", "e", "f", "g", "h", "i", "j", "k", "l", "m",
                 "n", "o", "p", "q", "r", "s", "t", "u", "v", "w", "x", "y", "z"}
UpperLetters == {"A", "B", "C", "D", "E", "F", "G", "H", "I", "J", "K", "L", "M",
                 "N", "O", "P", "Q", "R", "S", "T", "U", "V", "W", "X", "Y", "Z"}
Letters == LowerLetters \cup UpperLetters
\* \w of the re module (ASCII part): letters, digits and the underscore
WordChars == Letters \cup Digits \cup {"_"}
\* [\w\.] of the code group
CodeChars == WordChars \cup {"."}
\* \s and the characters str.strip() removes (ASCII part)
Spaces == {" ", "\t", "\n", "\r"}
Signs == {"+", "-"}

LowerPairs ==
    {<<"A", "a">>, <<"B", "b">>, <<"C", "c">>, <<"D", "d">>, <<"E", "e">>, <<"F", "f">>,
     <<"G", "g">>, <<"H", "h">>, <<"I", "i">>, <<"J", "j">>, <<"K", "k">>, <<"L", "l">>,
     <<"M", "m">>, <<"N", "n">>, <<"O", "o">>, <<"P", "p">>, <<"Q", "q">>, <<"R", "r">>,
     <<"S", "s">>, <<"T", "t">>, <<"U", "u">>, <<"V", "v">>, <<"W", "w">>, <<"X", "x">>,
     <<"Y", "y">>, <<"Z", "z">>}

\* str.lower() on one character
LowerChar(c) ==
    IF c \in UpperLetters THEN (CHOOSE p \in LowerPairs : p[1] = c)[2] ELSE c

DigitPairs ==
    {<<"0", 0>>, <<"1", 1>>, <<"2", 2>>, <<"3", 3>>, <<"4", 4>>,
     <<"5", 5>>, <<"6", 6>>, <<"7", 7>>, <<"8", 8>>, <<"9", 9>>}

DigitVal(c) == (CHOOSE p \in DigitPairs : p[1] = c)[2]

-----------------------------------------------------------------------------
(* Strings *)

\* str.lower()
LowerStr(s) == [i \in 1..Len(s) |-> LowerChar(s[i])]

\* the index after the longest run of characters of Class starting at i
RunEnd(s, i, Class) ==
    CHOOSE k \in i..(Len(s) + 1) :
        /\ \A j \in i..(k - 1) : s[j] \in Class
        /\ (k = Len(s) + 1 \/ s[k] \notin Class)

\* the index of the last character of s outside Class, 0 when there is none
LastOutside(s, Class) ==
    IF \E k \in 1..Len(s) : s[k] \notin Class
    THEN CHOOSE k \in 1..Len(s) :
            /\ s[k] \notin Class
            /\ \A j \in (k + 1)..Len(s) : s[j] \in Class
    ELSE 0

\* str.strip()
Strip(s) == SubSeq(s, RunEnd(s, 1, Spaces), LastOutside(s, Spaces))

\* s.startswith(p)
StartsWith(s, p) == Len(s) >= Len(p) /\ SubSeq(s, 1, Len(p)) = p

\* p in s
Contains(s, p) ==
    \E i \in 1..(Len(s) - Len(p) + 1) : SubSeq(s, i, i + Len(p) - 1) = p

\* s.replace('%', '')
RemovePct(s) == SelectSeq(s, LAMBDA c : c # "%")

\* code.split('.')[0]
BeforeFirstDot(s) ==
    IF \E k \in 1..Len(s) : s[k] = "."
    THEN SubSeq(s, 1, (CHOOSE k \in 1..Len(s) :
                          s[k] = "." /\ \A j \in 1..(k - 1) : s[j] # ".") - 1)
    ELSE s

\* the Python string a character sequence stands for
RECURSIVE Join(_)
Join(s) == IF s = <<>> THEN "" ELSE Head(s) \o Join(Tail(s))

-----------------------------------------------------------------------------
(* Floats: exact decimals m * 10^(-e), canonical (m has no trailing zero), or NaN *)

NaN == [k |-> "nan", m |-> 0, e |-> 0]
\* an exception escaping the call
Raised == [k |-> "raise", m |-> 0, e |-> 0]

RECURSIVE Canon(_, _)
Canon(m, e) ==
    IF m = 0 THEN [k |-> "num", m |-> 0, e |-> 0]
    ELSE IF m % 10 = 0 THEN Canon(m \div 10, e - 1)
    ELSE [k |-> "num", m |-> m, e |-> e]

RECURSIVE Pow10(_)
Pow10(n) == IF n <= 0 THEN 1 ELSE 10 * Pow10(n - 1)

\* the integer written by the digits s[i..j] (0 for an empty range)
RECURSIVE DigitsVal(_, _, _)
DigitsVal(s, i, j) ==
    IF j < i THEN 0 ELSE 10 * DigitsVal(s, i, j - 1) + DigitVal(s[j])

\* float(s) of a string: [ok, v]; ok = FALSE stands for ValueError.
\* Grammar: surrounding whitespace, sign, digits with an optional point (at least
\* one digit), optional exponent.  ("inf", "nan" and digit-group underscores are
\* not modelled; no input of the model spells them.)
NotAFloat == [ok |-> FALSE, v |-> NaN]

\* the value of sign t[1], digits t[i..a-1], fraction t[a+1..b-1], exponent ex
FloatValue(t, i, a, b, ex) ==
    [ok |-> TRUE,
     v |-> Canon((IF t[1] = "-" THEN 0 - 1 ELSE 1)
                   * (DigitsVal(t, i, a - 1) * Pow10(b - a - 1) + DigitsVal(t, a + 1, b - 1)),
                 (IF b > a THEN b - a - 1 ELSE 0) - ex)]

\* the exponent digits t[x..] after the 'e' at b (and a sign, when neg or x > b + 1)
ParseExpDigits(t, i, a, b, x) ==
    IF RunEnd(t, x, Digits) > x /\ RunEnd(t, x, Digits) = Len(t) + 1
    THEN FloatValue(t, i, a, b,
                    (IF t[b + 1] = "-" THEN 0 - 1 ELSE 1) * DigitsVal(t, x, Len(t)))
    ELSE NotAFloat

\* the mantissa is t[i..b-1] with the point at a (none when b = a)
ParseExponent(t, i, a, b) ==
    IF (a - i) + (IF b > a THEN b - a - 1 ELSE 0) < 1 THEN NotAFloat
    ELSE IF b = Len(t) + 1 THEN FloatValue(t, i, a, b, 0)
    ELSE IF t[b] \notin {"e", "E"} THEN NotAFloat
    ELSE ParseExpDigits(t, i, a, b,
                        IF b + 1 <= Len(t) /\ t[b + 1] \in Signs THEN b + 2 ELSE b + 1)

ParseFraction(t, i, a) ==
    ParseExponent(t, i, a,
                  IF a <= Len(t) /\ t[a] = "." THEN RunEnd(t, a + 1, Digits) ELSE a)

ParseSigned(t) ==
    IF t = <<>> THEN NotAFloat
    ELSE ParseFraction(t, IF t[1] \in Signs THEN 2 ELSE 1,
                       RunEnd(t, IF t[1] \in Signs THEN 2 ELSE 1, Digits))

FloatParse(s) == ParseSigned(Strip(s))

\* one match attempt of r'[-+]?\d*\.?\d+' at position p: the index after the match,
\* 0 when the regex does not match at p (greedy, with the engine's backtracking)
NumMatchAt(s, p) ==
    LET n == Len(s)
        q == IF s[p] \in Signs THEN p + 1 ELSE p
        a == RunEnd(s, q, Digits)
    IN  IF a <= n /\ s[a] = "." /\ a + 1 <= n /\ s[a + 1] \in Digits
        THEN RunEnd(s, a + 1, Digits)
        ELSE IF a > q THEN a
        ELSE 0

\* a faulty variant of the search below: the last match, nums[-1]
LastNumber(s) ==
    IF \E p \in 1..Len(s) : NumMatchAt(s, p) # 0
    THEN LET p == CHOOSE p \in 1..Len(s) :
                    /\ NumMatchAt(s, p) # 0
                    /\ \A r \in (p + 1)..Len(s) : NumMatchAt(s, r) = 0
         IN  [found |-> TRUE, text |-> SubSeq(s, p, NumMatchAt(s, p) - 1)]
    ELSE [found |-> FALSE, text |-> <<>>]

\* re.findall(r'[-+]?\d*\.?\d+', s): nums[0] as [found, text]
FindFirstNumber(s) ==
    IF \E p \in 1..Len(s) : NumMatchAt(s, p) # 0
    THEN LET p == CHOOSE p \in 1..Len(s) :
                    /\ NumMatchAt(s, p) # 0
                    /\ \A r \in 1..(p - 1) : NumMatchAt(s, r) = 0
         IN  [found |-> TRUE, text |-> SubSeq(s, p, NumMatchAt(s, p) - 1)]
    ELSE [found |-> FALSE, text |-> <<>>]

\* A cell as read_csv(dtype=str) gives it: a string, or NaN for a blank cell
Absent == [abs |-> TRUE, s |-> <<>>]
Raw(s) == [abs |-> FALSE, s |-> s]

\* pct_to_float(val) for the values dtype=str produces
PctToFloat(v) ==
    IF v.abs THEN NaN
    ELSE LET s == RemovePct(Strip(v.s))
             d == FloatParse(s)
             nums == FindFirstNumber(s)
         IN  IF s = <<>> THEN NaN
             ELSE IF d.ok THEN d.v
             ELSE IF nums.found
             THEN LET f == FloatParse(nums.text)
                  IN  IF f.ok THEN f.v ELSE Raised
             ELSE NaN

-----------------------------------------------------------------------------
(* Inputs: the uploaded tables are the sub-tables of one gradebook: any selection *)
(* and order of at most MaxCols of its columns and of its rows                    *)

Headers ==
    <<<<"S", "t", "u", "d", "e", "n", "t">>,
      <<"A", "s", "s", "e", "s", "s", "m", "e", "n", "t", " ", "-", " ", "1", ".", "1", ".", "6", " ", "T", "o", "p", "o", "l", "o", "g", "i", "e", "s">>,
      <<"L", "a", "b", " ", "-", " ", "1", ".", "2", ".", "7", " ", "B", "u", "i", "l", "d">>,
      <<"L", "A", "B", "A", "S", "S", "E", "S", "S", "-", "B", ".", "2", ".", "7">>,
      <<"Q", "u", "i", "z", "2", " ", "-", " ", "1", ".", "3">>,
      <<"F", "i", "n", "a", "l", " ", "E", "x", "a", "m", " ", "-", " ", "3", ".", "1">>,
      <<" ", "S", "T", "U", "D", "E", "N", "T", " ", "I", "D">>>>

\* one row per student, one cell per header of Headers
Gradebook ==
    <<<<Raw(<<"A", "l", "i", "c", "e">>),
        Raw(<<"8", "0", "%">>),
        Raw(<<"9", "0", "%">>),
        Raw(<<"a", "b", "c">>),
        Raw(<<"9", "0", ".", "5">>),
        Raw(<<"l", "a", "t", "e">>),
        Raw(<<"A", "1">>)>>,
      <<Raw(<<"B", "o", "b">>),
        Absent,
        Raw(<<"1", "0", "0">>),
        Raw(<<"N", "/", "A", " ", "8", "5">>),
        Raw(<<" ", "9", "1", ".", "3", "3", "7", " ", "%">>),
        Absent,
        Absent>>>>

\* the sequences without repetition over S, of lengths lo..hi
InjSeqs(S, lo, hi) ==
    {q \in UNION {[1..n -> S] : n \in lo..hi} :
        \A i, j \in 1..Len(q) : q[i] = q[j] => i = j}

SubTable(hs, ss) ==
    [cols |-> [j \in 1..Len(hs) |-> Headers[hs[j]]],
     rows |-> [i \in 1..Len(ss) |-> [j \in 1..Len(hs) |-> Gradebook[ss[i]][hs[j]]]]]

\* the tables over the columns H and the rows S of the gradebook: at most MaxCols
\* of the columns and any of the rows, in any order
TablesOver(H, S) ==
    {SubTable(hs, ss) : hs \in InjSeqs(H, 1, MaxCols), ss \in InjSeqs(S, 0, Cardinality(S))}

Tables == TablesOver(DOMAIN Headers, DOMAIN Gradebook)

\* the tables of the requests that follow one another: Student, one assessment
\* column, one column of another module; the row of Alice
RunTables == TablesOver({1, 2, 4}, {1})

-----------------------------------------------------------------------------
(* Python values *)

None == [none |-> TRUE, s |-> <<>>]
Some(s) == [none |-> FALSE, s |-> s]

\* d[key] = v on an insertion-ordered dict (a sequence of [key, val])
DictSet(d, key, v) ==
    IF \E i \in 1..Len(d) : d[i].key = key
    THEN [i \in 1..Len(d) |-> IF d[i].key = key THEN [key |-> key, val |-> v] ELSE d[i]]
    ELSE Append(d, [key |-> key, val |-> v])

DictHas(d, key) == \E i \in 1..Len(d) : d[i].key = key
DictGet(d, key) == d[CHOOSE i \in 1..Len(d) : d[i].key = key].val

\* a cell of a DataFrame: a str, or a float (NaN for a blank cell)
StrCell(s) == [str |-> TRUE, s |-> s, v |-> NaN]
FloatCell(v) == [str |-> FALSE, s |-> <<>>, v |-> v]
FromRaw(c) == IF c.abs THEN FloatCell(NaN) ELSE StrCell(c.s)

\* a value of the output table: a str, or NaN
OutStr(x) == [nan |-> FALSE, text |-> x]
OutNaN == [nan |-> TRUE, text |-> ""]

-----------------------------------------------------------------------------
(* HEADER_RE and parse_columns *)

student == <<"s", "t", "u", "d", "e", "n", "t">>

\* a faulty variant of the match below: HEADER_RE.search, not anchored at the start
HeaderMatchSearch(h) ==
    LET n == Len(h)
        starts == {p \in 1..n :
                     LET j1 == RunEnd(h, p, WordChars)
                         i2 == RunEnd(h, j1, Spaces)
                     IN  /\ j1 > p
                         /\ i2 <= n /\ h[i2] = "-"
                         /\ RunEnd(h, RunEnd(h, i2 + 1, Spaces), CodeChars)
                              > RunEnd(h, i2 + 1, Spaces)}
    IN  IF starts = {} THEN [ok |-> FALSE, type |-> <<>>, code |-> <<>>]
        ELSE LET p  == CHOOSE p \in starts : \A r \in starts : p <= r
                 j1 == RunEnd(h, p, WordChars)
                 i2 == RunEnd(h, j1, Spaces)
                 i3 == RunEnd(h, i2 + 1, Spaces)
                 j3 == RunEnd(h, i3, CodeChars)
             IN  [ok |-> TRUE, type |-> SubSeq(h, p, j1 - 1), code |-> SubSeq(h, i3, j3 - 1)]

\* HEADER_RE.match(col): [ok, type, code].  The character classes \s, \w and '-'
\* are disjoint, so each greedy run is the only way to match.
HeaderMatch(h) ==
    LET n  == Len(h)
        i1 == RunEnd(h, 1, Spaces)
        j1 == RunEnd(h, i1, WordChars)
        i2 == RunEnd(h, j1, Spaces)
        i3 == RunEnd(h, i2 + 1, Spaces)
        j3 == RunEnd(h, i3, CodeChars)
        k  == RunEnd(h, j3, Spaces)
    IN  IF /\ j1 > i1
           /\ i2 <= n /\ h[i2] = "-"
           /\ j3 > i3
           /\ \A j \in k..(n - 1) : h[j] # "\n"
        THEN [ok |-> TRUE, type |-> SubSeq(h, i1, j1 - 1), code |-> SubSeq(h, i3, j3 - 1)]
        ELSE [ok |-> FALSE, type |-> <<>>, code |-> <<>>]

\* a faulty variant of the list below: one list kept across the calls
StaleModulesSet(old) == old

\* modules_set = [] of line 22: a list created anew by every call
NewModulesSet(old) == <<>>

\* lines 36-37
AddModule(modules_set, module) ==
    IF \E i \in 1..Len(modules_set) : modules_set[i] = module
    THEN modules_set
    ELSE Append(modules_set, module)

\* the loop of lines 23-40 from column i on; acc = [col_map, modules_set]
RECURSIVE ParseLoop(_, _, _)
ParseLoop(cols, i, acc) ==
    IF i > Len(cols) THEN acc
    ELSE LET col == cols[i]
             m == HeaderMatch(col)
         IN  IF StartsWith(LowerStr(Strip(col)), student)
             THEN ParseLoop(cols, i + 1,
                     [col_map |-> DictSet(acc.col_map, col,
                                          [typ |-> Some(student), module |-> None]),
                      modules_set |-> acc.modules_set])
             ELSE IF m.ok
             THEN LET typ == LowerStr(Strip(m.type))
                      module == BeforeFirstDot(Strip(m.code))
                  IN  ParseLoop(cols, i + 1,
                         [col_map |-> DictSet(acc.col_map, col,
                                              [typ |-> Some(typ), module |-> Some(module)]),
                          modules_set |-> AddModule(acc.modules_set, module)])
             ELSE ParseLoop(cols, i + 1,
                     [col_map |-> DictSet(acc.col_map, col,
                                          [typ |-> None, module |-> None]),
                      modules_set |-> acc.modules_set])

\* parse_columns(df); old is what the names held before the call
ParseColumnsOf(cols, old) ==
    ParseLoop(cols, 1, [col_map |-> <<>>, modules_set |-> NewModulesSet(old)])

-----------------------------------------------------------------------------
(* index(): the steps of one POST request *)

\* lines 76-84
FindStudentCol(cols) ==
    IF \E j \in 1..Len(cols) : StartsWith(LowerStr(cols[j]), student)
    THEN cols[CHOOSE j \in 1..Len(cols) :
                /\ StartsWith(LowerStr(cols[j]), student)
                /\ \A i \in 1..(j - 1) : ~StartsWith(LowerStr(cols[i]), student)]
    ELSE cols[1]

\* lines 92-95 on one row: every column but student_col goes through pct_to_float
ConvertRow(cols, scol, row) ==
    [j \in 1..Len(cols) |->
        IF cols[j] = scol THEN FromRaw(row[j]) ELSE FloatCell(PctToFloat(row[j]))]

\* a faulty variant of the tests below: "lab" tested before "assess"
KindOfLabFirst(t) ==
    IF Contains(t, <<"l", "a", "b">>) THEN "lab"
    ELSE "assessment"

\* lines 111-117: the list a column of type t is appended to
KindOf(t) ==
    IF Contains(t, <<"a", "s", "s", "e", "s", "s">>)
       \/ StartsWith(t, <<"a", "s", "s", "e", "s", "s", "m", "e", "n", "t">>)
    THEN "assessment"
    ELSE IF Contains(t, <<"l", "a", "b">>) \/ StartsWith(t, <<"l", "a", "b">>)
    THEN "lab"
    ELSE "assessment"

EmptyLists(module) == [module |-> module, assessment |-> <<>>, lab |-> <<>>]

HasModule(mc, module) == \E i \in 1..Len(mc) : mc[i].module = module

\* lines 107-117 for one item of col_map
AddColumn(mc, col, typ, module) ==
    LET mc1 == IF HasModule(mc, module) THEN mc ELSE Append(mc, EmptyLists(module))
    IN  [i \in 1..Len(mc1) |->
            IF mc1[i].module # module THEN mc1[i]
            ELSE IF KindOf(LowerStr(typ)) = "lab"
            THEN [mc1[i] EXCEPT !.lab = Append(@, col)]
            ELSE [mc1[i] EXCEPT !.assessment = Append(@, col)]]

\* the loop of lines 104-117 from item i of col_map on
RECURSIVE GroupLoop(_, _, _)
GroupLoop(cm, i, mc) ==
    IF i > Len(cm) THEN mc
    ELSE IF cm[i].val.module.none \/ cm[i].val.typ.none
    THEN GroupLoop(cm, i + 1, mc)
    ELSE GroupLoop(cm, i + 1, AddColumn(mc, cm[i].key, cm[i].val.typ.s, cm[i].val.module.s))

\* lines 100-117
BuildModuleColsOf(cm, order) ==
    GroupLoop(cm, 1, [i \in 1..Len(order) |-> EmptyLists(order[i])])

\* row[col]: the cell of the first column of that name
ColIndex(cols, col) ==
    CHOOSE j \in 1..Len(cols) : cols[j] = col /\ \A i \in 1..(j - 1) : cols[i] # col

\* .values.astype(float) on one cell: float() of a str may raise ValueError
AsFloat(cell) ==
    IF cell.str
    THEN LET f == FloatParse(cell.s) IN IF f.ok THEN f.v ELSE Raised
    ELSE cell.v

MaxE(vals) ==
    IF vals = <<>> THEN 0
    ELSE LET es == {vals[i].e : i \in 1..Len(vals)} \cup {0}
         IN  CHOOSE e \in es : \A f \in es : f <= e

RECURSIVE SumScaled(_, _)
SumScaled(vals, E) ==
    IF vals = <<>> THEN 0
    ELSE Head(vals).m * Pow10(E - Head(vals).e) + SumScaled(Tail(vals), E)

\* a faulty variant of the mean below: missing values count in the divisor
MeanAllColumns(vals) ==
    IF vals = <<>> THEN [nan |-> TRUE, p |-> 0, q |-> 1]
    ELSE LET present == SelectSeq(vals, LAMBDA v : v.k = "num")
         IN  [nan |-> FALSE,
              p |-> 100 * SumScaled(present, MaxE(present)),
              q |-> Len(vals) * Pow10(MaxE(present))]

\* pd.Series(vals).dropna().mean() as a fraction [nan, p, q] of hundredths: p / q
Mean(vals) ==
    LET present == SelectSeq(vals, LAMBDA v : v.k = "num")
    IN  IF present = <<>> THEN [nan |-> TRUE, p |-> 0, q |-> 1]
        ELSE [nan |-> FALSE,
              p |-> 100 * SumScaled(present, MaxE(present)),
              q |-> Len(present) * Pow10(MaxE(present))]

TwoDigits(n) == IF n < 10 THEN "0" \o ToString(n) ELSE ToString(n)

\* f"{mean:.2f}%" if pd.notna(mean) else '' (round-half-even on the exact value)
FormatPct(mean) ==
    IF mean.nan THEN ""
    ELSE LET a  == IF mean.p < 0 THEN 0 - mean.p ELSE mean.p
             fl == a \div mean.q
             r  == a % mean.q
             h  == IF 2 * r > mean.q \/ (2 * r = mean.q /\ fl % 2 = 1) THEN fl + 1 ELSE fl
         IN  (IF mean.p < 0 THEN "-" ELSE "")
               \o ToString(h \div 100) \o "." \o TwoDigits(h % 100) \o "%"

ModuleTitle(module, kind) == "Module " \o Join(module) \o " " \o kind

\* lines 128-138 for one list of columns: [raised, text]
KindCell(cols, row, list) ==
    LET vals == [i \in 1..Len(list) |-> AsFloat(row[ColIndex(cols, list[i])])]
    IN  IF \E i \in 1..Len(vals) : vals[i].k = "raise"
        THEN [raised |-> TRUE, text |-> ""]
        ELSE [raised |-> FALSE,
              text |-> FormatPct(IF Len(list) > 0 THEN Mean(vals)
                                 ELSE [nan |-> TRUE, p |-> 0, q |-> 1])]

\* the loop of lines 124-141 from entry i of module_cols on: [raised, out_row]
RECURSIVE ModuleLoop(_, _, _, _, _)
ModuleLoop(cols, row, mc, i, out_row) ==
    IF i > Len(mc) THEN [raised |-> FALSE, out_row |-> out_row]
    ELSE LET a == KindCell(cols, row, mc[i].assessment)
             l == KindCell(cols, row, mc[i].lab)
         IN  IF a.raised \/ l.raised THEN [raised |-> TRUE, out_row |-> <<>>]
             ELSE ModuleLoop(cols, row, mc, i + 1,
                    DictSet(DictSet(out_row,
                                    ModuleTitle(mc[i].module, "Assignments"), OutStr(a.text)),
                            ModuleTitle(mc[i].module, "Labs"), OutStr(l.text)))

\* the student value of a row: the cell as it is (a str, or NaN)
StudentValue(cell) == IF cell.str THEN OutStr(Join(cell.s)) ELSE OutNaN

\* lines 122-141 for one row of numeric_df: [raised, out_row]
BuildOutRow(cols, scol, mc, row) ==
    ModuleLoop(cols, row, mc, 1,
               <<[key |-> "Student", val |-> StudentValue(row[ColIndex(cols, scol)])]>>)

\* a faulty variant of the append below: output_rows.insert(0, out_row)
AppendRowFront(rows, out_row) == <<out_row>> \o rows
\* output_rows.append(out_row), line 142
AppendRow(rows, out_row) == Append(rows, out_row)

\* a faulty variant of the two loops below: one loop that appends both titles
TableColumnsInterleaved(mc) ==
    <<"Student">> \o
    [i \in 1..(2 * Len(mc)) |->
        IF i % 2 = 1 THEN ModuleTitle(mc[(i + 1) \div 2].module, "Assignments")
        ELSE ModuleTitle(mc[i \div 2].module, "Labs")]

\* lines 148-156
TableColumnsOf(mc) ==
    <<"Student">> \o [i \in 1..Len(mc) |-> ModuleTitle(mc[i].module, "Assignments")]
                  \o [i \in 1..Len(mc) |-> ModuleTitle(mc[i].module, "Labs")]

\* pd.DataFrame(output_rows, columns=table_columns), line 160
DataFrameOf(rows, columns) ==
    [i \in 1..Len(rows) |->
        [j \in 1..Len(columns) |->
            IF DictHas(rows[i], columns[j]) THEN DictGet(rows[i], columns[j]) ELSE OutNaN]]

-----------------------------------------------------------------------------
(* The request handler as a state machine *)

NoTable == [cols |-> <<>>, rows |-> <<>>]
NoPrev == [table |-> NoTable, pc |-> "none", table_columns |-> <<>>, out_df |-> <<>>]

\* the names of index() before their first assignment, and no normaliser call
Locals ==
    /\ df_columns = <<>>
    /\ student_col = <<>>
    /\ col_map = <<>>
    /\ modules_order = <<>>
    /\ numeric_df = <<>>
    /\ module_cols = <<>>
    /\ output_rows = <<>>
    /\ table_columns = <<>>
    /\ out_df = <<>>

Init ==
    /\ pc = "read"
    /\ table \in Tables
    /\ Locals
    /\ prev = NoPrev
    /\ runs = 1
    /\ val = Absent
    /\ ret = NaN

\* lines 71-75: read the CSV as text, strip the column names
ReadCsv ==
    /\ pc = "read"
    /\ df_columns' = [j \in 1..Len(table.cols) |-> Strip(table.cols[j])]
    /\ pc' = "student"
    /\ UNCHANGED <<table, student_col, col_map, modules_order, numeric_df, module_cols,
                   output_rows, table_columns, out_df, prev, runs, val, ret>>

\* lines 76-84
IdentifyStudent ==
    /\ pc = "student"
    /\ student_col' = FindStudentCol(df_columns)
    /\ pc' = "parse"
    /\ UNCHANGED <<table, df_columns, col_map, modules_order, numeric_df, module_cols,
                   output_rows, table_columns, out_df, prev, runs, val, ret>>

\* line 87
ParseColumns ==
    /\ pc = "parse"
    /\ LET r == ParseColumnsOf(df_columns, modules_order)
       IN  /\ col_map' = r.col_map
           /\ modules_order' = r.modules_set
    /\ pc' = "convert"
    /\ UNCHANGED <<table, df_columns, student_col, numeric_df, module_cols,
                   output_rows, table_columns, out_df, prev, runs, val, ret>>

\* lines 91-95; an exception of pct_to_float would end the request
ConvertGrades ==
    /\ pc = "convert"
    /\ LET n == [i \in 1..Len(table.rows) |->
                    ConvertRow(df_columns, student_col, table.rows[i])]
       IN  /\ numeric_df' = n
           /\ pc' = IF \E i \in 1..Len(n) : \E j \in 1..Len(n[i]) : n[i][j].v.k = "raise"
                    THEN "error" ELSE "group"
    /\ UNCHANGED <<table, df_columns, student_col, col_map, modules_order, module_cols,
                   output_rows, table_columns, out_df, prev, runs, val, ret>>

\* lines 100-120
BuildModuleCols ==
    /\ pc = "group"
    /\ module_cols' = BuildModuleColsOf(col_map, modules_order)
    /\ output_rows' = <<>>
    /\ pc' = "rows"
    /\ UNCHANGED <<table, df_columns, student_col, col_map, modules_order, numeric_df,
                   table_columns, out_df, prev, runs, val, ret>>

\* lines 121-142, one iteration: the row after those already appended
BuildRow ==
    /\ pc = "rows"
    /\ Len(output_rows) < Len(numeric_df)
    /\ LET r == BuildOutRow(df_columns, student_col, module_cols,
                            numeric_df[Len(output_rows) + 1])
       IN  /\ ~r.raised
           /\ output_rows' = AppendRow(output_rows, r.out_row)
    /\ UNCHANGED <<pc, table, df_columns, student_col, col_map, modules_order, numeric_df,
                   module_cols, table_columns, out_df, prev, runs, val, ret>>

\* lines 129 and 135: astype(float) raises ValueError, the request ends in an error
BuildRowRaises ==
    /\ pc = "rows"
    /\ Len(output_rows) < Len(numeric_df)
    /\ BuildOutRow(df_columns, student_col, module_cols,
                   numeric_df[Len(output_rows) + 1]).raised
    /\ pc' = "error"
    /\ UNCHANGED <<table, df_columns, student_col, col_map, modules_order, numeric_df,
                   module_cols, output_rows, table_columns, out_df, prev, runs, val, ret>>

\* lines 148-163: the table handed to the template
Render ==
    /\ pc = "rows"
    /\ Len(output_rows) = Len(numeric_df)
    /\ table_columns' = TableColumnsOf(module_cols)
    /\ out_df' = DataFrameOf(output_rows, TableColumnsOf(module_cols))
    /\ pc' = "done"
    /\ UNCHANGED <<table, df_columns, student_col, col_map, modules_order, numeric_df,
                   module_cols, output_rows, prev, runs, val, ret>>

Next ==
    \/ ReadCsv
    \/ IdentifyStudent
    \/ ParseColumns
    \/ ConvertGrades
    \/ BuildModuleCols
    \/ BuildRow
    \/ BuildRowRaises
    \/ Render

Spec == Init /\ [][Next]_vars

-----------------------------------------------------------------------------
(* Requests one after another in the same process *)

InitRuns ==
    /\ pc = "read"
    /\ table \in RunTables
    /\ Locals
    /\ prev = NoPrev
    /\ runs = 1
    /\ val = Absent
    /\ ret = NaN

\* the next POST: what the finished request answered is remembered in prev; the
\* names of the finished call are not reset here, each step assigns them itself
NewRequest ==
    /\ pc \in {"done", "error"}
    /\ runs < MaxRuns
    /\ table' \in RunTables
    /\ prev' = [table |-> table, pc |-> pc,
                table_columns |-> IF pc = "done" THEN table_columns ELSE <<>>,
                out_df |-> IF pc = "done" THEN out_df ELSE <<>>]
    /\ runs' = runs + 1
    /\ pc' = "read"
    /\ UNCHANGED <<df_columns, student_col, col_map, modules_order, numeric_df, module_cols,
                   output_rows, table_columns, out_df, val, ret>>

NextRuns == Next \/ NewRequest

SpecRuns == InitRuns /\ [][NextRuns]_vars

-----------------------------------------------------------------------------
(* pct_to_float on its own *)

PctAlphabet == {"0", "1", "9", ".", "-", "+", "%", " ", "e", "x"}

RECURSIVE StringsUpTo(_)
StringsUpTo(n) ==
    IF n = 0 THEN {<<>>}
    ELSE LET shorter == StringsUpTo(n - 1)
         IN  shorter \cup {Append(s, c) : s \in shorter, c \in PctAlphabet}

\* the examples of the specification
Examples ==
    {<<"9", "1", "%">>, <<"9", "1">>, <<"N", "/", "A", " ", "8", "5">>, <<"a", "b", "c">>}

PctInputs == {Absent} \cup {Raw(s) : s \in StringsUpTo(MaxLen) \cup Examples}

InitPct ==
    /\ pc = "pct_call"
    /\ val \in PctInputs
    /\ ret = NaN
    /\ table = NoTable
    /\ Locals
    /\ prev = NoPrev
    /\ runs = 0

PctCall ==
    /\ pc = "pct_call"
    /\ ret' = PctToFloat(val)
    /\ pc' = "pct_ret"
    /\ UNCHANGED <<table, df_columns, student_col, col_map, modules_order, numeric_df,
                   module_cols, output_rows, table_columns, out_df, prev, runs, val>>

NextPct == PctCall

SpecPct == InitPct /\ [][NextPct]_vars

-----------------------------------------------------------------------------
(* What the specification says of a table, stated from the uploaded table alone *)

\* the column names of the uploaded table, trimmed
InputCols == [j \in 1..Len(table.cols) |-> Strip(table.cols[j])]

\* the header starts with "student", case-insensitively
StudentHeader(h) == StartsWith(LowerStr(Strip(h)), student)

\* h reads <type> - <code> <free text>: a type token over TypeClass, a hyphen with
\* optional whitespace around it, a code of word characters and dots
TypeCodePattern(h, TypeClass) ==
    \E i \in 1..Len(h) :
        /\ \A x \in 1..(i - 1) : h[x] \in Spaces
        /\ \E j \in i..Len(h) :
            /\ \A x \in i..j : h[x] \in TypeClass
            /\ \E d \in (j + 1)..Len(h) :
                /\ h[d] = "-"
                /\ \A x \in (j + 1)..(d - 1) : h[x] \in Spaces
                /\ \E c \in (d + 1)..Len(h) :
                    /\ h[c] \in CodeChars
                    /\ \A x \in (d + 1)..(c - 1) : h[x] \in Spaces

\* the type of a header of the pattern: the token before the first hyphen
SpecType(h) ==
    Strip(SubSeq(h, 1, (CHOOSE d \in 1..Len(h) :
                           h[d] = "-" /\ \A x \in 1..(d - 1) : h[x] # "-") - 1))

\* the code of a header of the pattern: the token after the first hyphen
SpecCode(h) ==
    LET d == CHOOSE d \in 1..Len(h) : h[d] = "-" /\ \A x \in 1..(d - 1) : h[x] # "-"
        c == RunEnd(h, d + 1, Spaces)
    IN  SubSeq(h, c, RunEnd(h, c, CodeChars) - 1)

\* a grading column: not a student column, and of the type-code pattern
Graded(h) == ~StudentHeader(h) /\ TypeCodePattern(h, WordChars)

\* the kind the specification gives a type
SpecKind(type) ==
    IF Contains(LowerStr(type), <<"a", "s", "s", "e", "s", "s">>) THEN "assessment"
    ELSE IF Contains(LowerStr(type), <<"l", "a", "b">>) THEN "lab"
    ELSE "assessment"

\* the module the specification gives a grading column
SpecModule(h) == BeforeFirstDot(SpecCode(h))

\* the positions of the grading columns that are the first of their module
FirstSeen(cols) ==
    SelectSeq([j \in 1..Len(cols) |-> j],
              LAMBDA j : /\ Graded(cols[j])
                         /\ \A i \in 1..(j - 1) :
                               Graded(cols[i]) => SpecModule(cols[i]) # SpecModule(cols[j]))

\* the module registry: the modules in first-seen column order
SpecRegistry(cols) ==
    LET first == FirstSeen(cols)
    IN  [k \in 1..Len(first) |-> SpecModule(cols[first[k]])]

\* the positions of the columns of a module and kind, in column order
SpecColumns(cols, module, kind) ==
    SelectSeq([j \in 1..Len(cols) |-> j],
              LAMBDA j : /\ Graded(cols[j])
                         /\ SpecModule(cols[j]) = module
                         /\ SpecKind(SpecType(cols[j])) = kind)

\* the text of the mean of the present values: sum / count to two decimals, or ''
SpecMeanText(vals) ==
    LET present == SelectSeq(vals, LAMBDA v : v.k = "num")
    IN  IF present = <<>> THEN ""
        ELSE FormatPct([nan |-> FALSE,
                        p |-> 100 * SumScaled(present, MaxE(present)),
                        q |-> Len(present) * Pow10(MaxE(present))])

\* the cell of an input row for a module and kind
SpecCell(cols, row, module, kind) ==
    LET list == SpecColumns(cols, module, kind)
    IN  SpecMeanText([k \in 1..Len(list) |-> PctToFloat(row[list[k]])])

\* the student-identity column: the first student column, else the first column
SpecStudentPos(cols) ==
    IF \E j \in 1..Len(cols) : StudentHeader(cols[j])
    THEN CHOOSE j \in 1..Len(cols) :
            StudentHeader(cols[j]) /\ \A i \in 1..(j - 1) : ~StudentHeader(cols[i])
    ELSE 1

SpecStudentValue(c) == IF c.abs THEN OutNaN ELSE OutStr(Join(c.s))

\* the output column list for a registry
SpecTableColumns(reg) ==
    [i \in 1..(1 + 2 * Len(reg)) |->
        IF i = 1 THEN "Student"
        ELSE IF i <= 1 + Len(reg) THEN ModuleTitle(reg[i - 1], "Assignments")
        ELSE ModuleTitle(reg[i - 1 - Len(reg)], "Labs")]

\* the output row of an input row, for the registry reg of the columns
SpecOutRowFor(cols, reg, row) ==
    [i \in 1..(1 + 2 * Len(reg)) |->
        IF i = 1 THEN SpecStudentValue(row[SpecStudentPos(cols)])
        ELSE IF i <= 1 + Len(reg)
        THEN OutStr(SpecCell(cols, row, reg[i - 1], "assessment"))
        ELSE OutStr(SpecCell(cols, row, reg[i - 1 - Len(reg)], "lab"))]

\* the output rows of a table
SpecOutput(t) ==
    LET cols == [j \in 1..Len(t.cols) |-> Strip(t.cols[j])]
        reg == SpecRegistry(cols)
    IN  [i \in 1..Len(t.rows) |-> SpecOutRowFor(cols, reg, t.rows[i])]

\* module_cols has been built in this request
Grouped == pc \in {"rows", "done", "error"}

\* the number of places of module_cols that hold the column
Places(col) ==
    Cardinality({<<i, kind, k>> \in (1..Len(module_cols)) \X {"assessment", "lab"}
                                      \X (1..Len(df_columns)) :
                    /\ k <= Len(module_cols[i][kind])
                    /\ module_cols[i][kind][k] = col})

InList(col, module, kind) ==
    \E i \in 1..Len(module_cols) :
        /\ module_cols[i].module = module
        /\ \E k \in 1..Len(module_cols[i][kind]) : module_cols[i][kind][k] = col

\* the columns of a list keep their original order
InColumnOrder(list) ==
    \A a, b \in 1..Len(list) :
        a < b => ColIndex(df_columns, list[a]) < ColIndex(df_columns, list[b])

-----------------------------------------------------------------------------
(* C1 *)

\* C1: when the column list is built it is Student, then "Module m Assignments"
\* for each module of the registry in first-seen order, then "Module m Labs" in
\* the same order: 1 + 2n columns, whatever the interleaving of the kinds, and
\* every output row has these columns.
C1_ColumnOrder ==
    pc = "done" =>
        /\ table_columns = SpecTableColumns(SpecRegistry(InputCols))
        /\ Len(table_columns) = 1 + 2 * Len(SpecRegistry(InputCols))
        /\ \A i \in 1..Len(out_df) : Len(out_df[i]) = Len(table_columns)

\* two modules, a lab column ahead of an assessment column, a module of one kind
C1_Witness ==
    /\ pc = "done"
    /\ Len(module_cols) >= 2
    /\ \E i \in 1..Len(module_cols) : module_cols[i].assessment = <<>>
    /\ \E a, b \in 1..Len(df_columns) :
        /\ a < b
        /\ \E i \in 1..Len(module_cols) : module_cols[i].lab = <<df_columns[a]>>
        /\ \E i \in 1..Len(module_cols) : module_cols[i].assessment = <<df_columns[b]>>

-----------------------------------------------------------------------------
(* C2 *)

\* C2: every header that does not start with "student" and is of the pattern has
\* module = its code before the first dot and kind = assessment if its lower-cased
\* type contains "assess", else lab if it contains "lab", else assessment; it is in
\* exactly one list, that of this module and kind, and lists keep column order.
C2_Classification ==
    Grouped =>
        /\ \A j \in 1..Len(df_columns) :
            Graded(df_columns[j]) =>
                /\ DictHas(col_map, df_columns[j])
                /\ DictGet(col_map, df_columns[j]) =
                      [typ |-> Some(LowerStr(SpecType(df_columns[j]))),
                       module |-> Some(SpecModule(df_columns[j]))]
                /\ Places(df_columns[j]) = 1
                /\ InList(df_columns[j], SpecModule(df_columns[j]),
                          SpecKind(SpecType(df_columns[j])))
        /\ \A i \in 1..Len(module_cols) :
            InColumnOrder(module_cols[i].assessment) /\ InColumnOrder(module_cols[i].lab)

\* a type that contains both "lab" and "assess" is grouped, beside a lab column
C2_Witness ==
    /\ Grouped
    /\ \E j \in 1..Len(df_columns) :
        /\ Graded(df_columns[j])
        /\ Contains(LowerStr(SpecType(df_columns[j])), <<"l", "a", "b">>)
        /\ Contains(LowerStr(SpecType(df_columns[j])), <<"a", "s", "s", "e", "s", "s">>)
        /\ \E i \in 1..Len(module_cols) : module_cols[i].assessment = <<df_columns[j]>>
    /\ \E i \in 1..Len(module_cols) : module_cols[i].lab # <<>>

-----------------------------------------------------------------------------
(* C3 *)

\* not a student column and not of the pattern with types over TypeClass
Unclassified(h, TypeClass) == ~StudentHeader(h) /\ ~TypeCodePattern(h, TypeClass)

\* cell texts to put in place of a cell
OtherCells == {Absent, Raw(<<"5", "5">>), Raw(<<"x">>)}

\* the output row of input row i with the cell of column j replaced by c
Rerun(i, j, c) ==
    BuildOutRow(df_columns, student_col, module_cols,
                ConvertRow(df_columns, student_col, [table.rows[i] EXCEPT ![j] = c]))

\* the column is marked unknown and is in no list
LeftOut(col) ==
    /\ DictHas(col_map, col)
    /\ DictGet(col_map, col) = [typ |-> None, module |-> None]
    /\ Places(col) = 0

\* every module of the registry is the module of a column of the pattern
RegistryFrom(TypeClass) ==
    \A i \in 1..Len(module_cols) :
        \E j \in 1..Len(df_columns) :
            /\ ~Unclassified(df_columns[j], TypeClass)
            /\ ~StudentHeader(df_columns[j])
            /\ SpecModule(df_columns[j]) = module_cols[i].module

\* C3 as claimed: a header that does not start with "student" and is not of the
\* pattern with an alphabetic type is unclassified: it makes no registry entry, is
\* in no list, and its cells change no output cell.
C3_AsClaimed ==
    Grouped =>
        /\ RegistryFrom(Letters)
        /\ \A j \in 1..Len(df_columns) :
            Unclassified(df_columns[j], Letters) =>
                /\ LeftOut(df_columns[j])
                /\ \A i \in 1..Len(output_rows) : \A c \in OtherCells :
                      Rerun(i, j, c) = [raised |-> FALSE, out_row |-> output_rows[i]]

\* C3 amended: a header that does not start with "student" and is not of the
\* pattern with a type of word characters (letters, digits, underscore) is
\* unclassified: it makes no registry entry, is in no list, and its cells change no
\* module cell of the output (as the fallback student column they are the Student cell).
C3_Unclassified ==
    Grouped =>
        /\ RegistryFrom(WordChars)
        /\ \A j \in 1..Len(df_columns) :
            Unclassified(df_columns[j], WordChars) =>
                /\ LeftOut(df_columns[j])
                /\ \A i \in 1..Len(output_rows) : \A c \in OtherCells :
                      /\ ~Rerun(i, j, c).raised
                      /\ Tail(Rerun(i, j, c).out_row) = Tail(output_rows[i])

\* a row is built from a table with an unclassified column beside a grading column
C3_Witness ==
    /\ Grouped
    /\ Len(output_rows) >= 1
    /\ Len(module_cols) >= 1
    /\ \E j \in 1..Len(df_columns) :
        Unclassified(df_columns[j], WordChars) /\ df_columns[j] # student_col

-----------------------------------------------------------------------------
(* C4 *)

\* C4: every cell of a built output row is the mean of the row's normalized values
\* over the columns of that module and kind, missing values ignored, to two
\* decimals with "%"; it is '' when there is no such column or no present value.
C4_Means ==
    Grouped =>
        \A i \in 1..Len(output_rows) : \A k \in 1..Len(module_cols) :
            /\ DictHas(output_rows[i], ModuleTitle(module_cols[k].module, "Assignments"))
            /\ DictGet(output_rows[i], ModuleTitle(module_cols[k].module, "Assignments"))
                 = OutStr(SpecCell(InputCols, table.rows[i],
                                   module_cols[k].module, "assessment"))
            /\ DictHas(output_rows[i], ModuleTitle(module_cols[k].module, "Labs"))
            /\ DictGet(output_rows[i], ModuleTitle(module_cols[k].module, "Labs"))
                 = OutStr(SpecCell(InputCols, table.rows[i], module_cols[k].module, "lab"))

\* a mean over two columns of which one is missing in the row
C4_Witness ==
    /\ Grouped
    /\ \E i \in 1..Len(output_rows) : \E k \in 1..Len(module_cols) :
        /\ Len(module_cols[k].assessment) = 2
        /\ Cardinality({a \in 1..2 :
              numeric_df[i][ColIndex(df_columns, module_cols[k].assessment[a])].v.k = "nan"})
             = 1
        /\ DictGet(output_rows[i], ModuleTitle(module_cols[k].module, "Assignments")).text
             # ""

-----------------------------------------------------------------------------
(* C6 *)

\* C6: no condition is fatal: a request never ends in an error.
C6_NoFatal == pc # "error"

-----------------------------------------------------------------------------
(* C7 *)

\* C7: the student column is the first column that starts with "student", else
\* the first column, and then no error is surfaced; the student field of every
\* output row is that column's raw cell text of the input row.
C7_StudentColumn ==
    /\ pc \notin {"read", "student"} =>
          student_col = InputCols[SpecStudentPos(InputCols)]
    /\ (\A j \in 1..Len(InputCols) : ~StudentHeader(InputCols[j])) => pc # "error"
    /\ Grouped =>
          \A i \in 1..Len(output_rows) :
              DictGet(output_rows[i], "Student")
                = SpecStudentValue(table.rows[i][SpecStudentPos(InputCols)])

-----------------------------------------------------------------------------
(* C8 *)

\* C8: the output has one row per input row, in input order, the i-th computed
\* from the i-th input row; none is dropped, all-missing rows included.
C8_RowOrder ==
    /\ Grouped => Len(output_rows) <= Len(table.rows)
    /\ pc = "done" =>
          /\ Len(out_df) = Len(table.rows)
          /\ out_df = SpecOutput(table)

\* two rows, one of them with every grade missing
C8_Witness ==
    /\ pc = "done"
    /\ Len(out_df) >= 2
    /\ Len(table_columns) > 1
    /\ \E i \in 1..Len(out_df) : \A j \in 2..Len(out_df[i]) : out_df[i][j].text = ""
    /\ \E i \in 1..Len(out_df) : \E j \in 2..Len(out_df[i]) : out_df[i][j].text # ""

-----------------------------------------------------------------------------
(* C10 *)

\* C10: the student column is in no list of module_cols, and every cell of an
\* aggregated column has gone through the normalizer.
C10_StudentNotAggregated ==
    Grouped =>
        /\ Places(student_col) = 0
        /\ \A k \in 1..Len(module_cols) : \A kind \in {"assessment", "lab"} :
           \A a \in 1..Len(module_cols[k][kind]) : \A i \in 1..Len(numeric_df) :
              ~numeric_df[i][ColIndex(df_columns, module_cols[k][kind][a])].str

-----------------------------------------------------------------------------
(* C5 *)

\* the cell text stripped, with every "%" removed
Remainder(v) == RemovePct(Strip(v.s))

\* u is a signed decimal number: an optional sign, digits, an optional point, digits
SignedDecimal(u) ==
    \E a \in 0..1 : \E b \in 0..Len(u) : \E d \in 0..1 :
        /\ Len(u) - a - b - d >= 1
        /\ a = 1 => u[1] \in Signs
        /\ \A x \in (a + 1)..(a + b) : u[x] \in Digits
        /\ d = 1 => u[a + b + 1] = "."
        /\ \A x \in (a + b + d + 1)..Len(u) : u[x] \in Digits

\* the places <<i, j>> of the signed decimal numbers embedded in s
Embedded(s) ==
    {q \in (1..Len(s)) \X (1..Len(s)) :
        q[1] <= q[2] /\ SignedDecimal(SubSeq(s, q[1], q[2]))}

\* the first of them: the leftmost, and the longest from there
FirstEmbedded(s) ==
    CHOOSE q \in Embedded(s) :
        \A r \in Embedded(s) : q[1] < r[1] \/ (q[1] = r[1] /\ q[2] >= r[2])

\* C5: pct_to_float returns a number or missing and never raises; blank or absent
\* is missing; else the stripped text without "%" is parsed directly, and when
\* that fails the first embedded signed decimal number is returned, and missing
\* when there is none.
C5_Normalizer ==
    pc = "pct_ret" =>
        /\ ret.k \in {"num", "nan"}
        /\ val.abs => ret = NaN
        /\ (~val.abs /\ Remainder(val) = <<>>) => ret = NaN
        /\ (~val.abs /\ FloatParse(Remainder(val)).ok) =>
              ret = FloatParse(Remainder(val)).v
        /\ (~val.abs /\ ~FloatParse(Remainder(val)).ok /\ Embedded(Remainder(val)) # {}) =>
              /\ ret.k = "num"
              /\ ret = FloatParse(SubSeq(Remainder(val), FirstEmbedded(Remainder(val))[1],
                                         FirstEmbedded(Remainder(val))[2])).v
        /\ (~val.abs /\ ~FloatParse(Remainder(val)).ok /\ Embedded(Remainder(val)) = {}) =>
              ret = NaN
        /\ ~val.abs =>
              (ret = NaN <=> \A x \in 1..Len(val.s) : val.s[x] \notin Digits)
        /\ val = Raw(<<"9", "1", "%">>) => ret = Canon(91, 0)
        /\ val = Raw(<<"9", "1">>) => ret = Canon(91, 0)
        /\ val = Raw(<<"N", "/", "A", " ", "8", "5">>) => ret = Canon(85, 0)
        /\ val = Raw(<<"a", "b", "c">>) => ret = NaN

\* the direct parse fails and the first of two embedded numbers is returned
C5_Witness ==
    /\ pc = "pct_ret"
    /\ ~val.abs
    /\ ~FloatParse(Remainder(val)).ok
    /\ Cardinality({q[1] : q \in Embedded(Remainder(val))}) >= 2
    /\ ret.k = "num"

-----------------------------------------------------------------------------
(* C9 *)

\* C9: a request's answer is a function of its table alone: the same table gives
\* the same answer as in the previous request, and the registry, the column list
\* and the rows hold nothing but what the request's own table gives.
C9_Stateless ==
    /\ (pc \in {"done", "error"} /\ prev.pc # "none" /\ prev.table = table) =>
          /\ prev.pc = pc
          /\ pc = "done" => prev.table_columns = table_columns /\ prev.out_df = out_df
    /\ pc \in {"convert", "group"} => modules_order = SpecRegistry(InputCols)
    /\ Grouped =>
          /\ [i \in 1..Len(module_cols) |-> module_cols[i].module] = SpecRegistry(InputCols)
          /\ \A i \in 1..Len(module_cols) :
                \A kind \in {"assessment", "lab"} : \A k \in 1..Len(module_cols[i][kind]) :
                    \E j \in 1..Len(InputCols) : module_cols[i][kind][k] = InputCols[j]
          /\ Len(output_rows) <= Len(table.rows)
    /\ pc = "done" =>
          /\ table_columns = SpecTableColumns(SpecRegistry(InputCols))
          /\ out_df = SpecOutput(table)

\* the same table answered twice in a row, with rows and a module
C9_Witness ==
    /\ pc = "done"
    /\ runs >= 2
    /\ prev.pc = "done"
    /\ prev.table = table
    /\ Len(out_df) >= 1
    /\ Len(module_cols) >= 1

====
